---- MODULE Spec2Model ----
(***************************************************************************)
(* QueryCraft: the LangGraph pipeline of querycraft/services.py            *)
(* (sql_generator -> sql_validator -> execute_sql), the SQL validator and  *)
(* the SQL extractor it is built on.                                       *)
(*                                                                         *)
(* Texts (SQL statements, backend responses) are sequences of one-         *)
(* character strings, so that strip / upper / startswith / "in" / split    *)
(* and the regular expression of the extractor are computed character by   *)
(* character as Python computes them.  Messages that the code only builds  *)
(* and never inspects (error strings) are TLA+ strings.                    *)
(***************************************************************************)
EXTENDS Integers, Sequences, FiniteSets, TLC

VARIABLES
    pc,          \* position of the run (the next node of the graph, or the call made)
    question,    \* the question process_question was called with
    arg,         \* the text handed to a direct call of _validate_sql
    backend,     \* what the completion backend does in this run
    store,       \* what the relational store does in this run
    state,       \* the GraphState threaded through the nodes
    verdicts,    \* the calls of _validate_sql so far: the text and the ValidationResult
    storeCalls,  \* the statements sent to the store so far, in order, and the sender
    nodesRun,    \* the nodes of the graph that have run so far, in order
    result,      \* the QueryResult returned to the caller
    backendCalls, \* the number of chain.invoke calls made so far
    cleanings,   \* the calls of _clean_sql_query so far: the input and the output
    runs         \* the runs of process_question in flight together, each with its own state

vars == <<pc, question, arg, backend, store, state, verdicts, storeCalls, nodesRun, result,
          backendCalls, cleanings, runs>>

----------------------------------------------------------------------------
(* Python values                                                           *)

\* The element of a set of one element.  Python evaluates an expression once
\* and binds its value to a name: The({e : x \in {v}}) is e with x bound to
\* the value of v.
The(S) == CHOOSE r \in S : TRUE

\* Python's None, and a value that is not None.
None == [some |-> FALSE]
Some(v) == [some |-> TRUE, val |-> v]

\* Python truthiness of an optional text / list (None and the empty one are falsy).
TruthySeq(o) == o.some /\ Len(o.val) > 0

\* Python truthiness of an optional bool.
TruthyBool(o) == o.some /\ o.val

\* The characters of a string literal.
Chars(s) == [i \in 1..Len(s) |-> SubSeq(s, i, i)]

LowerAlpha == Chars("abcdefghijklmnopqrstuvwxyz")
UpperAlpha == Chars("ABCDEFGHIJKLMNOPQRSTUVWXYZ")
Digits == Chars("0123456789")

Range(f) == {f[i] : i \in DOMAIN f}

LowerLetters == Range(LowerAlpha)
UpperLetters == Range(UpperAlpha)

ToUpper ==
    [c \in LowerLetters |-> UpperAlpha[CHOOSE i \in DOMAIN LowerAlpha : LowerAlpha[i] = c]]
ToLower ==
    [c \in UpperLetters |-> LowerAlpha[CHOOSE i \in DOMAIN UpperAlpha : UpperAlpha[i] = c]]

\* str.upper() and str.lower() on one character.
UpperChar(c) == IF c \in LowerLetters THEN ToUpper[c] ELSE c
LowerChar(c) == IF c \in UpperLetters THEN ToLower[c] ELSE c

Upper(t) == The({[i \in 1..Len(s) |-> UpperChar(s[i])] : s \in {t}})
Lower(t) == The({[i \in 1..Len(s) |-> LowerChar(s[i])] : s \in {t}})

\* The characters str.strip() removes.
SpaceChars == {" ", "\n", "\t", "\r"}
IsSpace(c) == c \in SpaceChars

\* The characters the regular expression class \w matches.
WordChars == LowerLetters \cup UpperLetters \cup Range(Digits) \cup {"_"}
IsWord(c) == c \in WordChars

\* str.strip()
Strip(t) ==
    The({IF \A i \in 1..Len(s) : IsSpace(s[i]) THEN <<>>
         ELSE LET lo == CHOOSE i \in 1..Len(s) :
                            ~IsSpace(s[i]) /\ \A j \in 1..(i - 1) : IsSpace(s[j])
                  hi == CHOOSE i \in 1..Len(s) :
                            ~IsSpace(s[i]) /\ \A j \in (i + 1)..Len(s) : IsSpace(s[j])
              IN  SubSeq(s, lo, hi) :
         s \in {t}})

\* p occurs in t at index i (1-based).
MatchAt(t, p, i) ==
    /\ i >= 1
    /\ i + Len(p) - 1 <= Len(t)
    /\ \A k \in 1..Len(p) : t[i + k - 1] = p[k]

\* p occurs at index i of t.upper() (p is upper case).
MatchUpperAt(t, p, i) ==
    /\ i >= 1
    /\ i + Len(p) - 1 <= Len(t)
    /\ \A k \in 1..Len(p) : UpperChar(t[i + k - 1]) = p[k]

\* str.startswith, str.endswith, the "in" operator on strings
StartsWith(t, p) == MatchAt(t, p, 1)
EndsWith(t, p) == MatchAt(t, p, Len(t) - Len(p) + 1)
Contains(t, p) == \E i \in 1..(Len(t) + 1) : MatchAt(t, p, i)

\* The backtick character (a TLA+ string literal cannot hold it).
BT == "BACKTICK"

----------------------------------------------------------------------------
(* The relational store (django.db.connection), as the code sees it        *)

\* What the store answers when a cursor is asked for and a statement is sent:
\* "ok", "connect_error" (connection.cursor() raises) or "statement_error"
\* (cursor.execute raises).
StoreOutcomes == {"ok", "connect_error", "statement_error"}

\* connection.vendor: the two vendors the syntax check knows, and another one.
Vendors == {"mysql", "postgresql", "sqlite"}

\* str(e) of the exception the store raises.
StoreErrorText(outcome) ==
    IF outcome = "connect_error" THEN "connection refused" ELSE "syntax error at or near"

----------------------------------------------------------------------------
(* SQLAgent._validate_sql                                                  *)

ValidationResult(is_valid, error) == [is_valid |-> is_valid, error |-> error]

dangerous_keywords ==
    <<"DROP", "DELETE", "INSERT", "UPDATE", "ALTER", "CREATE", "TRUNCATE">>

valid_tables ==
    <<"querycraft_customer", "querycraft_product", "querycraft_order">>

\* The same lists, character by character.
DangerousChars == [i \in DOMAIN dangerous_keywords |-> Chars(dangerous_keywords[i])]
ValidTableChars == [i \in DOMAIN valid_tables |-> Chars(valid_tables[i])]
SelectChars == Chars("SELECT")

EmptyError == "Empty SQL query"
OnlySelectError == "Only SELECT queries are allowed"
DangerousError(keyword) ==
    "Dangerous operation detected: " \o keyword \o " queries are not allowed"
NoTableError ==
    "Query must reference at least one valid table (querycraft_customer, querycraft_product, querycraft_order)"
SyntaxError(e) == "SQL syntax error: " \o e

\* A variant that sends the statement itself, whatever the vendor.
ExplainStatementBare(vendor, sql) == <<sql>>

\* The statement the syntax check sends for this vendor (none for other vendors).
ExplainStatement(vendor, sql) ==
    IF vendor = "postgresql" THEN <<Chars("EXPLAIN ") \o sql>>
    ELSE IF vendor = "sqlite" THEN <<Chars("EXPLAIN QUERY PLAN ") \o sql>>
    ELSE <<>>

\* A variant whose syntax check takes no notice of what the store raises.
ExplainCheckIgnoresErrors(sql, st) ==
    [result |-> ValidationResult(TRUE, None),
     calls |-> IF st.validate = "connect_error" THEN <<>> ELSE ExplainStatement(st.vendor, sql)]

\* The try block of the syntax check: the verdict and the statements sent.
ExplainCheck(sql, st) ==
    IF st.validate = "connect_error"
    THEN [result |-> ValidationResult(FALSE, Some(SyntaxError(StoreErrorText(st.validate)))),
          calls |-> <<>>]
    ELSE LET sent == ExplainStatement(st.vendor, sql)
         IN  IF sent # <<>> /\ st.validate = "statement_error"
             THEN [result |-> ValidationResult(FALSE, Some(SyntaxError(StoreErrorText(st.validate)))),
                   calls |-> sent]
             ELSE [result |-> ValidationResult(TRUE, None), calls |-> sent]

\* A variant that looks for SELECT anywhere in the text.
LeadingSelectAnywhere(sql_upper) == Contains(sql_upper, SelectChars)

\* The leading-keyword rule: sql_upper.startswith("SELECT").
LeadingSelect(sql_upper) == StartsWith(sql_upper, SelectChars)

\* A variant that counts a keyword only where it stands as a whole word.
DangerousHitsWholeWord(sql_upper) ==
    {i \in DOMAIN dangerous_keywords :
        \E at \in 1..Len(sql_upper) :
            /\ MatchAt(sql_upper, DangerousChars[i], at)
            /\ (at = 1 \/ ~IsWord(sql_upper[at - 1]))
            /\ (at + Len(DangerousChars[i]) > Len(sql_upper)
                \/ ~IsWord(sql_upper[at + Len(DangerousChars[i])]))}

\* The keywords of dangerous_keywords (their indexes) found in sql_upper.
DangerousHits(sql_upper) ==
    {i \in DOMAIN dangerous_keywords : Contains(sql_upper, DangerousChars[i])}

\* The first of them in list order: the one the loop returns on.
FirstDangerous(sql_upper) ==
    LET hits == DangerousHits(sql_upper)
    IN  dangerous_keywords[CHOOSE i \in hits : \A j \in hits : i <= j]

\* A variant that looks for the logical table names, without the prefix.
HasValidTableLogical(sql_lower) ==
    \E name \in {Chars("customer"), Chars("product"), Chars("order")} :
        Contains(sql_lower, name)

\* any(table in sql_lower for table in valid_tables)
HasValidTable(sql_lower) ==
    \E i \in DOMAIN valid_tables : Contains(sql_lower, ValidTableChars[i])

\* _validate_sql(sql) against the store st: [result, calls].
ValidateSql(sql, st) ==
    The({IF Len(sql) = 0 \/ Len(Strip(sql)) = 0
         THEN [result |-> ValidationResult(FALSE, Some(EmptyError)), calls |-> <<>>]
         ELSE IF ~LeadingSelect(sql_upper)
         THEN [result |-> ValidationResult(FALSE, Some(OnlySelectError)), calls |-> <<>>]
         ELSE IF DangerousHits(sql_upper) # {}
         THEN [result |-> ValidationResult(FALSE, Some(DangerousError(FirstDangerous(sql_upper)))),
               calls |-> <<>>]
         ELSE IF ~HasValidTable(sql_lower)
         THEN [result |-> ValidationResult(FALSE, Some(NoTableError)), calls |-> <<>>]
         ELSE ExplainCheck(sql, st) :
         sql_upper \in {Upper(Strip(sql))}, sql_lower \in {Lower(sql)}})

----------------------------------------------------------------------------
(* SQLAgent._clean_sql_query                                               *)

Fence == <<BT, BT, BT>>

\* The least element of a non-empty set of integers.
Min(S) == CHOOSE i \in S : \A j \in S : i <= j

\* The index of the first occurrence of p in t at or after index from (0 if none).
FindFrom(t, p, from) ==
    LET hits == {i \in from..(Len(t) + 1) : MatchAt(t, p, i)}
    IN  IF hits = {} THEN 0 ELSE Min(hits)

\* A variant that takes no notice of the closing fence.
SecondPartToEnd(t) == SubSeq(t, FindFrom(t, Fence, 1) + Len(Fence), Len(t))

\* sql.split(fence)[1]: the text between the first fence and the next one
\* (or the end of the text).
SecondPart(t) ==
    LET open == FindFrom(t, Fence, 1)
        close == FindFrom(t, Fence, open + Len(Fence))
    IN  IF close = 0 THEN SubSeq(t, open + Len(Fence), Len(t))
        ELSE SubSeq(t, open + Len(Fence), close - 1)

\* The language identifier test: startswith(("sql\n", "sql ")) on the
\* lower-cased text, else startswith(("SQL\n", "SQL ")) on the upper-cased one.
HasLanguageTag(t) ==
    \/ \E low \in {Lower(Strip(t))} :
           StartsWith(low, Chars("sql\n")) \/ StartsWith(low, Chars("sql "))
    \/ \E up \in {Upper(Strip(t))} :
           StartsWith(up, Chars("SQL\n")) \/ StartsWith(up, Chars("SQL "))

\* The markdown step: the content of the first fenced block, without its tag.
RemoveMarkdown(t) ==
    IF Contains(t, Fence)
    THEN The({Strip(IF HasLanguageTag(part)
                    THEN SubSeq(Strip(part), 4, Len(Strip(part)))
                    ELSE part) :
              part \in {SecondPart(t)}})
    ELSE t

statement_keywords == <<"SELECT", "WITH", "INSERT", "UPDATE", "DELETE">>
StatementChars == [i \in DOMAIN statement_keywords |-> Chars(statement_keywords[i])]

\* The keywords k for which \b k \b matches at index i of t, ignoring case.
KeywordsAt(t, i) ==
    {k \in DOMAIN statement_keywords :
        LET kw == StatementChars[k]
        IN  /\ MatchUpperAt(t, kw, i)
            /\ (i = 1 \/ ~IsWord(t[i - 1]))
            /\ (i + Len(kw) > Len(t) \/ ~IsWord(t[i + Len(kw)]))}

\* Where $ matches without re.MULTILINE: at the end, or before a final newline.
\* e is the index of the next unread character.
DollarAt(t, e) == e = Len(t) + 1 \/ (e = Len(t) /\ t[e] = "\n")

\* A variant whose match runs to the end of the text, past any semicolon.
RegexSearchGreedy(t) ==
    LET starts == {i \in 1..Len(t) : KeywordsAt(t, i) # {}}
    IN  IF starts = {} THEN None ELSE Some(SubSeq(t, Min(starts), Len(t)))

\* A variant whose match starts at the start of the text: the prose before
\* the keyword is kept.
RegexSearchKeepsPrefix(t) ==
    LET starts == {i \in 1..Len(t) : KeywordsAt(t, i) # {}}
    IN  IF starts = {} THEN None
        ELSE LET e == Min({j \in Min(starts)..(Len(t) + 1) :
                            (j <= Len(t) /\ t[j] = ";") \/ DollarAt(t, j)})
             IN  IF e <= Len(t) /\ t[e] = ";"
                 THEN Some(SubSeq(t, 1, e))
                 ELSE Some(SubSeq(t, 1, e - 1))

\* re.search(r"\b(SELECT|WITH|INSERT|UPDATE|DELETE)\b.*?(?:;|$)", t,
\* re.IGNORECASE | re.DOTALL): None, or the matched text.
RegexSearch(t) ==
    LET starts == {i \in 1..Len(t) : KeywordsAt(t, i) # {}}
    IN  IF starts = {} THEN None
        ELSE LET s == Min(starts)
                 k == CHOOSE k \in KeywordsAt(t, s) : TRUE
                 from == s + Len(statement_keywords[k])
                 e == Min({j \in from..(Len(t) + 1) :
                            (j <= Len(t) /\ t[j] = ";") \/ DollarAt(t, j)})
             IN  IF e <= Len(t) /\ t[e] = ";"
                 THEN Some(SubSeq(t, s, e))
                 ELSE Some(SubSeq(t, s, e - 1))

\* sql.split("\n")
RECURSIVE SplitLines(_)
SplitLines(t) ==
    LET nl == FindFrom(t, <<"\n">>, 1)
    IN  IF nl = 0 THEN <<t>>
        ELSE <<SubSeq(t, 1, nl - 1)>> \o SplitLines(SubSeq(t, nl + 1, Len(t)))

\* re.match(r"^\s*(SELECT|WITH|INSERT|UPDATE|DELETE)\b", line_stripped, re.IGNORECASE)
StartsStatement(line_stripped) == KeywordsAt(Strip(line_stripped), 1) # {}

\* The loop of the line-by-line strategy over lines[i..], with the lines
\* collected so far and the in_sql flag: the collected lines at the end.
RECURSIVE ScanLines(_, _, _, _)
ScanLines(lines, i, sql_lines, in_sql) ==
    IF i > Len(lines) THEN sql_lines
    ELSE LET line_stripped == Strip(lines[i])
             in_sql2 == in_sql \/ StartsStatement(line_stripped)
             sql_lines2 == IF in_sql2 /\ Len(line_stripped) > 0
                           THEN Append(sql_lines, line_stripped)
                           ELSE sql_lines
         IN  IF in_sql2 /\ EndsWith(line_stripped, <<";">>)
             THEN sql_lines2
             ELSE ScanLines(lines, i + 1, sql_lines2, in_sql2)

\* " ".join(sql_lines)
RECURSIVE JoinSpace(_)
JoinSpace(ls) ==
    IF Len(ls) = 0 THEN <<>>
    ELSE IF Len(ls) = 1 THEN ls[1]
    ELSE ls[1] \o <<" ">> \o JoinSpace(Tail(ls))

\* A variant without the search for a statement: the text as it is.
ExtractStatementWhole(t) == Strip(t)

\* The strategies, in order: the regular expression, the line-by-line scan,
\* the text as it is.
ExtractStatement(t) ==
    The({IF match.some THEN Strip(match.val)
         ELSE The({IF Len(sql_lines) > 0 THEN Strip(JoinSpace(sql_lines))
                   ELSE Strip(t) :
                   sql_lines \in {ScanLines(SplitLines(t), 1, <<>>, FALSE)}}) :
         match \in {RegexSearch(t)}})

\* A variant that cuts the last character without looking at it.
DropSemicolonUnchecked(t) == Strip(SubSeq(t, 1, Len(t) - 1))

\* Remove trailing semicolon if present.
DropSemicolon(t) ==
    IF EndsWith(t, <<";">>) THEN Strip(SubSeq(t, 1, Len(t) - 1)) ELSE t

\* The shortest result that is kept: a shorter one gives the original back.
MinSqlLen == 5

\* A variant whose last step gives up: a short candidate gives the empty text.
CleanSqlQueryGivesUp(original_sql) ==
    The({IF Len(sql) < MinSqlLen THEN <<>> ELSE sql :
         sql \in {DropSemicolon(ExtractStatement(RemoveMarkdown(original_sql)))}})

\* A variant without the last step: a short candidate is returned as it is.
CleanSqlQueryKeepsShort(original_sql) ==
    DropSemicolon(ExtractStatement(RemoveMarkdown(original_sql)))

\* _clean_sql_query(sql)
CleanSqlQuery(original_sql) ==
    The({IF Len(sql) = 0 \/ Len(sql) < MinSqlLen THEN Strip(original_sql) ELSE sql :
         sql \in {DropSemicolon(extracted) :
                     extracted \in {ExtractStatement(fenceless) :
                                       fenceless \in {RemoveMarkdown(original_sql)}}}})

----------------------------------------------------------------------------
(* The nodes of the graph                                                  *)

EmptyResponseError ==
    "Ollama returned empty response. Please check if the model is loaded and responding."
GenerationError(e) == "SQL generation error: " \o e
NoQueryToExecuteError == "No SQL query to execute"
ExecutionError(e) == "SQL execution error: " \o e

\* process_question's initial_state
InitialState(q) ==
    [question |-> q, sql_query |-> None, is_valid |-> None, error |-> None,
     results |-> None, columns |-> None, row_count |-> None, method |-> None]

\* The state a failed generation returns (empty response, or an exception).
GenerationFailed(st, error) ==
    [st EXCEPT !.sql_query = None, !.error = Some(error),
               !.method = Some("ollama"), !.is_valid = Some(FALSE)]

\* A variant that calls the backend a second time after a failed or empty answer.
BackendInvocationsRetry(b) ==
    IF b.kind = "raise" \/ Len(Strip(b.text)) = 0 THEN 2 ELSE 1

\* The chain.invoke calls of one run of _node_sql_generator: the node holds one
\* call, outside any loop, and its except branch returns without calling again.
BackendInvocations(b) == 1

\* A variant without the check for an empty response.
SqlGeneratorNoEmptyCheck(st, b) ==
    IF b.kind = "raise" THEN GenerationFailed(st, GenerationError(b.message))
    ELSE [st EXCEPT !.sql_query = Some(CleanSqlQuery(Strip(b.text))),
                    !.method = Some("ollama")]

\* _node_sql_generator: the state it returns for the backend outcome b.
SqlGenerator(st, b) ==
    IF b.kind = "raise" THEN GenerationFailed(st, GenerationError(b.message))
    ELSE The({IF Len(sql_query) = 0 THEN GenerationFailed(st, EmptyResponseError)
              ELSE [st EXCEPT !.sql_query = Some(CleanSqlQuery(sql_query)),
                              !.method = Some("ollama")] :
              sql_query \in {Strip(b.text)}})

\* A variant that always reports the default message.
NothingToValidateDefault(st) ==
    [st EXCEPT !.is_valid = Some(FALSE), !.error = Some("No SQL query generated")]

\* _node_sql_validator when there is no query: state.get("error", ...) finds
\* the key, which every state of a run holds, and keeps its value.
NothingToValidate(st) == [st EXCEPT !.is_valid = Some(FALSE), !.error = st.error]

\* A variant without the guard for a missing query: None is validated as "".
SqlValidatorNoGuard(st, db) ==
    LET sql == IF st.sql_query.some THEN st.sql_query.val ELSE <<>>
        v == ValidateSql(sql, db)
    IN  [state |-> [st EXCEPT !.is_valid = Some(v.result.is_valid),
                              !.error = v.result.error],
         calls |-> v.calls,
         validated |-> Some([sql |-> sql, result |-> v.result])]

\* _node_sql_validator: the state it returns, the statements it sent and the
\* _validate_sql call it made (None if it made none).
SqlValidator(st, db) ==
    IF ~TruthySeq(st.sql_query)
    THEN [state |-> NothingToValidate(st), calls |-> <<>>, validated |-> None]
    ELSE The({[state |-> [st EXCEPT !.is_valid = Some(v.result.is_valid),
                                    !.error = v.result.error],
               calls |-> v.calls,
               validated |-> Some([sql |-> st.sql_query.val, result |-> v.result])] :
              v \in {ValidateSql(st.sql_query.val, db)}})

\* A variant that takes every verdict that is not None for a valid one.
ShouldExecuteIfJudged(st) == IF st.is_valid.some THEN "valid" ELSE "invalid"

\* _should_execute
ShouldExecute(st) == IF TruthyBool(st.is_valid) THEN "valid" ELSE "invalid"

\* A variant whose mapping has no entry for "invalid": the run goes nowhere.
AfterValidatorNoEnd(st) ==
    IF ShouldExecute(st) = "valid" THEN "execute_sql" ELSE "invalid"

\* The conditional edge of _build_graph: {"valid": "execute_sql", "invalid": END}.
AfterValidator(st) == IF ShouldExecute(st) = "valid" THEN "execute_sql" ELSE "END"

\* The edge sql_generator -> sql_validator of _build_graph.
AfterGenerator(st) == "sql_validator"

\* dict(zip(columns, row)): zip stops at the shorter one, a repeated key keeps
\* its last value.
ZipDict(columns, row) ==
    LET n == IF Len(columns) <= Len(row) THEN Len(columns) ELSE Len(row)
        last(k) == CHOOSE i \in 1..n : columns[i] = k /\ \A j \in 1..n : columns[j] = k => j <= i
    IN  [k \in {columns[i] : i \in 1..n} |-> row[last(k)]]

\* A variant that fetches one row only.
FetchResultsFirstRow(st, db) ==
    LET columns == IF TruthySeq(db.description) THEN db.description.val ELSE <<>>
        rows == IF Len(db.rows) > 1 THEN SubSeq(db.rows, 1, 1) ELSE db.rows
        results == [i \in 1..Len(rows) |-> ZipDict(columns, rows[i])]
    IN  [st EXCEPT !.results = Some(results), !.row_count = Some(Len(results)),
                   !.columns = Some(columns)]

\* The SELECT branch of _node_execute_sql.
FetchResults(st, db) ==
    LET columns == IF TruthySeq(db.description) THEN db.description.val ELSE <<>>
        results == [i \in 1..Len(db.rows) |-> ZipDict(columns, db.rows[i])]
    IN  [st EXCEPT !.results = Some(results), !.row_count = Some(Len(results)),
                   !.columns = Some(columns)]

\* The branch of _node_execute_sql for the other statements.
AffectedRows(st, db) ==
    [st EXCEPT !.results = Some(<<>>), !.row_count = Some(db.rowcount),
               !.columns = Some(<<>>)]

\* A variant that takes a failure of the store for a statement without rows.
ExecuteSqlSwallowsError(st, db) ==
    IF ~TruthySeq(st.sql_query)
    THEN [state |-> [st EXCEPT !.error = Some(NoQueryToExecuteError)], calls |-> <<>>]
    ELSE IF db.execute = "connect_error"
    THEN [state |-> AffectedRows(st, db), calls |-> <<>>]
    ELSE IF db.execute = "statement_error"
    THEN [state |-> AffectedRows(st, db), calls |-> <<st.sql_query.val>>]
    ELSE IF StartsWith(Upper(Strip(st.sql_query.val)), SelectChars)
    THEN [state |-> FetchResults(st, db), calls |-> <<st.sql_query.val>>]
    ELSE [state |-> AffectedRows(st, db), calls |-> <<st.sql_query.val>>]

\* A variant whose except branch also sets empty results.
ExecuteSqlEmptyOnError(st, db) ==
    IF ~TruthySeq(st.sql_query)
    THEN [state |-> [st EXCEPT !.error = Some(NoQueryToExecuteError)], calls |-> <<>>]
    ELSE IF db.execute \in {"connect_error", "statement_error"}
    THEN [state |-> [st EXCEPT !.error = Some(ExecutionError(StoreErrorText(db.execute))),
                               !.results = Some(<<>>), !.row_count = Some(0),
                               !.columns = Some(<<>>)],
          calls |-> IF db.execute = "connect_error" THEN <<>> ELSE <<st.sql_query.val>>]
    ELSE IF StartsWith(Upper(Strip(st.sql_query.val)), SelectChars)
    THEN [state |-> FetchResults(st, db), calls |-> <<st.sql_query.val>>]
    ELSE [state |-> AffectedRows(st, db), calls |-> <<st.sql_query.val>>]

\* _node_execute_sql: the state it returns and the statements it sent.
ExecuteSql(st, db) ==
    IF ~TruthySeq(st.sql_query)
    THEN [state |-> [st EXCEPT !.error = Some(NoQueryToExecuteError)], calls |-> <<>>]
    ELSE IF db.execute = "connect_error"
    THEN [state |-> [st EXCEPT !.error = Some(ExecutionError(StoreErrorText(db.execute)))],
          calls |-> <<>>]
    ELSE IF db.execute = "statement_error"
    THEN [state |-> [st EXCEPT !.error = Some(ExecutionError(StoreErrorText(db.execute)))],
          calls |-> <<st.sql_query.val>>]
    ELSE IF StartsWith(Upper(Strip(st.sql_query.val)), SelectChars)
    THEN [state |-> FetchResults(st, db), calls |-> <<st.sql_query.val>>]
    ELSE [state |-> AffectedRows(st, db), calls |-> <<st.sql_query.val>>]

----------------------------------------------------------------------------
(* SQLAgent.process_question: the mapping of the final state                *)

QueryResult(success, q, sql_query, method, results, row_count, columns, error) ==
    [success |-> success, question |-> q, sql_query |-> sql_query,
     method |-> method, results |-> results, row_count |-> row_count,
     columns |-> columns, error |-> error]

\* A variant that reports a failure without the SQL text.
FailureResultNoSql(q, final_state) ==
    QueryResult(FALSE, q, None, final_state.method, <<>>, 0, <<>>, final_state.error)

FailureResult(q, final_state) ==
    QueryResult(FALSE, q, final_state.sql_query, final_state.method,
                <<>>, 0, <<>>, final_state.error)

\* The "except Exception" branch of process_question.
WorkflowError(q, e) ==
    QueryResult(FALSE, q, None, None, <<>>, 0, <<>>,
                Some("Workflow error: " \o e))

\* The success case: QueryResult refuses None for results, row_count and
\* columns (they are not optional fields), and that is caught as any exception.
SuccessResult(q, final_state) ==
    IF final_state.results.some /\ final_state.row_count.some /\ final_state.columns.some
    THEN QueryResult(TRUE, q, final_state.sql_query, final_state.method,
                     final_state.results.val, final_state.row_count.val,
                     final_state.columns.val, None)
    ELSE WorkflowError(q, "validation error for QueryResult")

\* A variant that decides success by the verdict alone.
MapFinalStateValidOnly(q, final_state) ==
    IF TruthyBool(final_state.is_valid)
    THEN QueryResult(TRUE, q, final_state.sql_query, final_state.method,
                     IF final_state.results.some THEN final_state.results.val ELSE <<>>,
                     IF final_state.row_count.some THEN final_state.row_count.val ELSE 0,
                     IF final_state.columns.some THEN final_state.columns.val ELSE <<>>,
                     None)
    ELSE FailureResult(q, final_state)

\* The QueryResult process_question builds from the final state of the graph.
MapFinalState(q, final_state) ==
    IF final_state.error.some /\ final_state.error.val # ""
    THEN FailureResult(q, final_state)
    ELSE IF TruthySeq(final_state.sql_query) /\ ~TruthyBool(final_state.is_valid)
    THEN FailureResult(q, final_state)
    ELSE SuccessResult(q, final_state)

----------------------------------------------------------------------------
(* The inputs of a run                                                     *)

\* The most rows the store returns for one statement.
MaxRows == 2

\* The most whitespace characters put before a statement handed to _validate_sql.
MaxPad == 1

Questions == {"How many customers are there?", "List the cancelled orders"}

\* The statements the backend answers with, before any wrapping.
Bodies == {
    Chars("SELECT * FROM querycraft_customer"),
    Chars("select name from querycraft_product where price > 10"),
    Chars("SELECT\n  c.name\nFROM querycraft_customer c"),
    Chars("Select id From QueryCraft_Customer"),
    Chars("SELECT * FROM customers"),
    Chars("SELECT 1"),
    Chars("DELETE FROM orders WHERE status='cancelled'"),
    Chars("SELECT 1; DELETE FROM orders WHERE status='cancelled'"),
    Chars("SELECT * FROM querycraft_order; DELETE FROM querycraft_order"),
    Chars("delete from querycraft_order"),
    Chars("SELECT created_at FROM querycraft_order"),
    Chars("SELECT* FROM querycraft_customer"),
    Chars("SELECTED FROM querycraft_customer"),
    Chars("DROP TABLE querycraft_customer"),
    Chars("WITH t AS (SELECT id FROM querycraft_order) SELECT * FROM t"),
    Chars("UPDATE querycraft_product SET price = 0"),
    Chars("I cannot answer that."),
    Chars("SEL") }

\* The ways the backend wraps a statement: prose, fences, semicolons, padding.
Wrappings(body) == {
    body,
    body \o Chars(";"),
    Chars("Here is the query:\n") \o body,
    Fence \o Chars("sql\n") \o body \o Chars("\n") \o Fence,
    Fence \o Chars("\n") \o body \o Chars(";\n") \o Fence \o Chars("\nThis returns rows."),
    Chars("  ") \o body \o Chars("\n"),
    body \o Chars(";\nThis query returns all orders.") }

\* Responses that hold no statement at all.
BareResponses == {
    <<>>,
    Chars("  \n"),
    Fence \o Chars("sql\n") \o Fence,
    Fence \o Fence,
    Fence \o Chars("sql\nSELECT id FROM querycraft_customer") }

BackendTexts == UNION {Wrappings(body) : body \in Bodies} \cup BareResponses

\* What chain.invoke does: it returns a text, or raises.
Backends ==
    {[kind |-> "text", text |-> t, message |-> ""] : t \in BackendTexts}
    \cup {[kind |-> "raise", text |-> <<>>, message |-> m] :
              m \in {"[Errno 111] Connection refused", "Read timed out"}}

\* The result sets of the store: cursor.description (None, or the column
\* names) and the rows of fetchall(), row i holding i in every column.
Descriptions == {None, Some(<<"id">>), Some(<<"id", "name">>), Some(<<"id", "id">>)}

Row(d, i) == IF d.some THEN [c \in 1..Len(d.val) |-> i * c] ELSE <<>>

ResultSets ==
    {[description |-> d, rows |-> [i \in 1..n |-> Row(d, i)]] :
        d \in Descriptions, n \in 0..MaxRows}

\* A store: the vendor, the outcome of the validator's statement, the outcome
\* of the executor's statement and, when that one is "ok", its result set.
Stores ==
    {[vendor |-> v, validate |-> "ok", execute |-> "ok",
      description |-> r.description, rows |-> r.rows, rowcount |-> Len(r.rows)] :
        v \in Vendors, r \in ResultSets}
    \cup
    {[vendor |-> v, validate |-> o, execute |-> x,
      description |-> None, rows |-> <<>>, rowcount |-> 0] :
        v \in Vendors, o \in StoreOutcomes, x \in StoreOutcomes \ {"ok"}}
    \cup
    {[vendor |-> v, validate |-> o, execute |-> "ok",
      description |-> Some(<<"id">>), rows |-> <<>>, rowcount |-> 0] :
        v \in Vendors, o \in StoreOutcomes \ {"ok"}}

\* The texts handed to _clean_sql_query directly: the responses above, the
\* (shortened) inputs of the tests, and texts without any statement keyword.
ExtractorBodies ==
    Bodies \cup {
        Chars("SELECT\n            c.name,\n            COUNT(o.id) as order_count\n        FROM querycraft_customer c"),
        Chars("Response:\n\n        SELECT\n        c.id\n        FROM querycraft_customer c;\n\n        Additional notes"),
        Chars("SHOW TABLES"),
        Chars("SHOW TABLES;"),
        Chars("WITH"),
        Chars("Here is the select query: SELECT id FROM querycraft_order"),
        <<BT>> \o Chars("SELECT id FROM querycraft_customer") \o <<BT>> }

\* Responses with prose around the fenced block, a second block, a tag in
\* another casing, a block without a statement keyword, a short block.
FencedResponses == {
    Chars("Sure:\n") \o Fence \o Chars("Sql\nSELECT * FROM querycraft_customer\n") \o Fence
        \o Chars("\nor else\n") \o Fence \o Chars("sql\nSELECT * FROM querycraft_product\n")
        \o Fence \o Chars("\nDone."),
    Chars("SELECT 1 FROM querycraft_order\n") \o Fence \o Chars("SQL SHOW TABLES;") \o Fence,
    Chars("Try ") \o Fence \o Chars("\nSEL\n") \o Fence \o Chars(" or SELECT id FROM querycraft_order"),
    Fence \o Chars("sqlite\nSELECT id FROM querycraft_product") }

ExtractorTexts ==
    UNION {Wrappings(body) : body \in ExtractorBodies} \cup BareResponses \cup FencedResponses

\* The texts handed to _validate_sql directly: padding, a leading word, the
\* select list, a table name and a tail, in every combination.
Pads == {[i \in 1..n |-> c] : c \in {" ", "\n"}, n \in 0..MaxPad}

Leads == {Chars(x) : x \in {"SELECT", "select", "Select", "SELECT*", "SELECTED",
                             "DELETE", "delete", "WITH", "INSERT", "(SELECT", ""}}

Middles == {Chars(x) : x \in {" * FROM ", " id, name FROM ", " updated_at FROM ", " 'Drop' FROM "}}

Tables == {Chars(x) : x \in {"querycraft_customer", "QueryCraft_Order", "querycraft_product",
                              "customers", "querycraft_orders_archive", ""}}

Tails == {Chars(x) : x \in {"", " WHERE id = 1", " WHERE created_at > 1",
                             "; DELETE FROM orders", " -- truncate",
                             " JOIN auth_user ON 1 = 1"}}

ValidatorTexts ==
    {p \o l \o m \o t \o z : p \in Pads, l \in Leads, m \in Middles, t \in Tables, z \in Tails}
    \cup Pads

\* The stores a direct call of _validate_sql meets (it never reaches the executor's part).
ValidatorStores ==
    {[vendor |-> v, validate |-> o, execute |-> "ok",
      description |-> None, rows |-> <<>>, rowcount |-> 0] :
        v \in Vendors, o \in StoreOutcomes}

----------------------------------------------------------------------------
(* A run of process_question                                               *)

Sent(by, calls) == [i \in 1..Len(calls) |-> [by |-> by, statement |-> calls[i]]]

Init ==
    /\ pc = "sql_generator"
    /\ question \in Questions
    /\ arg = <<>>
    /\ backend \in Backends
    /\ store \in Stores
    /\ state = InitialState(question)
    /\ verdicts = <<>>
    /\ storeCalls = <<>>
    /\ nodesRun = <<>>
    /\ result = None
    /\ backendCalls = 0
    /\ cleanings = <<>>
    /\ runs = <<>>

NodeSqlGenerator ==
    /\ pc = "sql_generator"
    /\ state' = SqlGenerator(state, backend)
    /\ backendCalls' = backendCalls + BackendInvocations(backend)
    /\ nodesRun' = Append(nodesRun, "sql_generator")
    /\ cleanings' = IF backend.kind = "text" /\ state'.sql_query.some
                     THEN Append(cleanings, [input |-> Strip(backend.text),
                                             output |-> state'.sql_query.val])
                     ELSE cleanings
    /\ pc' = AfterGenerator(state')
    /\ UNCHANGED <<question, arg, backend, store, verdicts, storeCalls, result, runs>>

NodeSqlValidator ==
    /\ pc = "sql_validator"
    /\ \E out \in {SqlValidator(state, store)} :
           /\ state' = out.state
           /\ storeCalls' = storeCalls \o Sent("sql_validator", out.calls)
           /\ verdicts' = IF out.validated.some
                          THEN Append(verdicts, out.validated.val)
                          ELSE verdicts
    /\ nodesRun' = Append(nodesRun, "sql_validator")
    /\ pc' = AfterValidator(state')
    /\ UNCHANGED <<question, arg, backend, store, result, backendCalls, cleanings, runs>>

NodeExecuteSql ==
    /\ pc = "execute_sql"
    /\ \E out \in {ExecuteSql(state, store)} :
           /\ state' = out.state
           /\ storeCalls' = storeCalls \o Sent("execute_sql", out.calls)
    /\ nodesRun' = Append(nodesRun, "execute_sql")
    /\ pc' = "END"
    /\ UNCHANGED <<question, arg, backend, store, verdicts, result, backendCalls, cleanings, runs>>

\* graph.invoke has returned: process_question maps the final state.
ReturnResult ==
    /\ pc = "END"
    /\ result' = Some(MapFinalState(question, state))
    /\ pc' = "done"
    /\ UNCHANGED <<question, arg, backend, store, state, verdicts, storeCalls, nodesRun,
                   backendCalls, cleanings, runs>>

Next == NodeSqlGenerator \/ NodeSqlValidator \/ NodeExecuteSql \/ ReturnResult

Spec == Init /\ [][Next]_vars

\* One response of each kind: a statement that passes, the same in a fenced
\* block, statements the validator rejects, prose, and nothing.
TerminationTexts == {
    Chars("SELECT * FROM querycraft_customer"),
    Fence \o Chars("sql\nSELECT * FROM querycraft_customer;\n") \o Fence,
    Chars("SELECTED FROM querycraft_customer"),
    Chars("SELECT * FROM customers"),
    Chars("DROP TABLE querycraft_customer"),
    Chars("I cannot answer that."),
    Chars("  \n"),
    <<>> }

InitTermination ==
    /\ Init
    /\ backend.kind = "text" => backend.text \in TerminationTexts

\* graph.invoke runs the next node as soon as the one before has returned,
\* and process_question returns as soon as graph.invoke has.
FairSpec == InitTermination /\ [][Next]_vars /\ WF_vars(Next)

----------------------------------------------------------------------------
(* Two runs of process_question whose nodes interleave                     *)

\* process_question as a function of the question and of what the backend
\* and the store do: graph.invoke on the initial state, then the mapping.
ProcessQuestion(q, b, db) ==
    The({MapFinalState(q, IF AfterValidator(validated) = "execute_sql"
                          THEN ExecuteSql(validated, db).state
                          ELSE validated) :
         validated \in {SqlValidator(generated, db).state :
                          generated \in {SqlGenerator(InitialState(q), b)}}})

RunIds == {1, 2}

\* What the runs meet: a statement that passes, one that is rejected, no
\* answer, an exception; a store that answers, one that fails the executor's
\* statement, one that fails the validator's.
ConcurrentBackends ==
    {[kind |-> "text", text |-> t, message |-> ""] :
        t \in {Chars("SELECT * FROM querycraft_customer"),
                Chars("SELECT * FROM customers"),
                <<>>}}
    \cup {[kind |-> "raise", text |-> <<>>, message |-> "Read timed out"]}

ConcurrentStores ==
    {db \in Stores :
        \/ db.vendor = "mysql" /\ db.execute = "ok" /\ db.validate = "ok"
              /\ db.description = Some(<<"id">>) /\ Len(db.rows) = 1
        \/ db.vendor = "postgresql" /\ db.execute = "statement_error" /\ db.validate = "ok"
        \/ db.vendor = "sqlite" /\ db.execute = "ok" /\ db.validate = "statement_error"}

\* A variant in which the nodes work on one state kept with the agent.
RunStateShared(rs, r) == rs[1].state

\* The state graph.invoke hands to a node of run r: the one that run's
\* process_question built and that run's nodes returned.
RunState(rs, r) == rs[r].state

InitConcurrent ==
    /\ pc = "concurrent"
    /\ question = ""
    /\ arg = <<>>
    /\ backend = [kind |-> "text", text |-> <<>>, message |-> ""]
    /\ store \in ValidatorStores /\ store.vendor = "mysql" /\ store.validate = "ok"
    /\ state = InitialState(question)
    /\ verdicts = <<>>
    /\ storeCalls = <<>>
    /\ nodesRun = <<>>
    /\ result = None
    /\ backendCalls = 0
    /\ cleanings = <<>>
    /\ runs \in [RunIds -> {[pc |-> "sql_generator", question |-> q, backend |-> b,
                              store |-> db, state |-> InitialState(q), result |-> None] :
                                q \in Questions, b \in ConcurrentBackends,
                                db \in ConcurrentStores}]

\* What a step of run r leaves alone: the single run's variables.
RunFrame(r, node) ==
    /\ nodesRun' = Append(nodesRun, [run |-> r, node |-> node])
    /\ UNCHANGED <<pc, question, arg, backend, store, state, verdicts, storeCalls, result,
                   backendCalls, cleanings>>

RunSqlGenerator(r) ==
    /\ runs[r].pc = "sql_generator"
    /\ \E st \in {SqlGenerator(RunState(runs, r), runs[r].backend)} :
           runs' = [runs EXCEPT ![r].state = st, ![r].pc = AfterGenerator(st)]
    /\ RunFrame(r, "sql_generator")

RunSqlValidator(r) ==
    /\ runs[r].pc = "sql_validator"
    /\ \E st \in {SqlValidator(RunState(runs, r), runs[r].store).state} :
           runs' = [runs EXCEPT ![r].state = st, ![r].pc = AfterValidator(st)]
    /\ RunFrame(r, "sql_validator")

RunExecuteSql(r) ==
    /\ runs[r].pc = "execute_sql"
    /\ \E st \in {ExecuteSql(RunState(runs, r), runs[r].store).state} :
           runs' = [runs EXCEPT ![r].state = st, ![r].pc = "END"]
    /\ RunFrame(r, "execute_sql")

RunReturnResult(r) ==
    /\ runs[r].pc = "END"
    /\ runs' = [runs EXCEPT ![r].result = Some(MapFinalState(runs[r].question,
                                                               RunState(runs, r))),
                             ![r].pc = "done"]
    /\ RunFrame(r, "return")

NextConcurrent ==
    \E r \in RunIds :
        RunSqlGenerator(r) \/ RunSqlValidator(r) \/ RunExecuteSql(r) \/ RunReturnResult(r)

SpecConcurrent == InitConcurrent /\ [][NextConcurrent]_vars

----------------------------------------------------------------------------
(* A direct call of _validate_sql                                          *)

InitValidate ==
    /\ pc = "_validate_sql"
    /\ question = ""
    /\ arg \in ValidatorTexts
    /\ backend = [kind |-> "text", text |-> <<>>, message |-> ""]
    /\ store \in ValidatorStores
    /\ state = InitialState(question)
    /\ verdicts = <<>>
    /\ storeCalls = <<>>
    /\ nodesRun = <<>>
    /\ result = None
    /\ backendCalls = 0
    /\ cleanings = <<>>
    /\ runs = <<>>

CallValidateSql ==
    /\ pc = "_validate_sql"
    /\ \E v \in {ValidateSql(arg, store)} :
           /\ verdicts' = Append(verdicts, [sql |-> arg, result |-> v.result])
           /\ storeCalls' = storeCalls \o Sent("_validate_sql", v.calls)
    /\ pc' = "returned"
    /\ UNCHANGED <<question, arg, backend, store, state, nodesRun, result,
                   backendCalls, cleanings, runs>>

NextValidate == CallValidateSql

SpecValidate == InitValidate /\ [][NextValidate]_vars

----------------------------------------------------------------------------
(* Direct calls of _clean_sql_query: on a text, then on its own output     *)

InitClean ==
    /\ pc = "_clean_sql_query"
    /\ question = ""
    /\ arg \in ExtractorTexts
    /\ backend = [kind |-> "text", text |-> <<>>, message |-> ""]
    /\ store \in ValidatorStores /\ store.vendor = "mysql" /\ store.validate = "ok"
    /\ state = InitialState(question)
    /\ verdicts = <<>>
    /\ storeCalls = <<>>
    /\ nodesRun = <<>>
    /\ result = None
    /\ backendCalls = 0
    /\ cleanings = <<>>
    /\ runs = <<>>

CallCleanSqlQuery ==
    /\ pc = "_clean_sql_query"
    /\ cleanings' = Append(cleanings, [input |-> arg, output |-> CleanSqlQuery(arg)])
    /\ pc' = "cleaned"
    /\ UNCHANGED <<question, arg, backend, store, state, verdicts, storeCalls, nodesRun,
                   result, backendCalls, runs>>

CallCleanSqlQueryAgain ==
    /\ pc = "cleaned"
    /\ \E again \in {cleanings[Len(cleanings)].output} :
           cleanings' = Append(cleanings, [input |-> again, output |-> CleanSqlQuery(again)])
    /\ pc' = "cleaned_again"
    /\ UNCHANGED <<question, arg, backend, store, state, verdicts, storeCalls, nodesRun,
                   result, backendCalls, runs>>

NextClean == CallCleanSqlQuery \/ CallCleanSqlQueryAgain

SpecClean == InitClean /\ [][NextClean]_vars

----------------------------------------------------------------------------
(* The HTTP endpoint process_query of querycraft/views.py, for POST requests *)

\* The attributes an SQLAgent object has: the methods the class defines and
\* the fields its constructor sets.
SQLAgentAttributes ==
    {"__init__", "get_schema_info", "_build_graph", "_node_sql_generator",
     "_node_sql_validator", "_node_execute_sql", "_should_execute", "_clean_sql_query",
     "_validate_sql", "process_question", "llm", "graph"}

\* agent.<name>: the attribute, or the AttributeError Python raises.
GetAttribute(name) ==
    IF name \in SQLAgentAttributes THEN [raised |-> FALSE, message |-> ""]
    ELSE [raised |-> TRUE,
          message |-> "'SQLAgent' object has no attribute '" \o name \o "'"]

\* dict.get(key, default) on a dictionary kept as a function.
DictGet(d, key, default) == IF key \in DOMAIN d THEN d[key] ELSE default

\* The JSON bodies of the endpoint's branches.
EmptyQuestionResponse == [success |-> FALSE, error |-> "Please enter a question"]
DecodeErrorResponse == [success |-> FALSE, error |-> "Error processing request"]
ExceptionResponse(e) == [success |-> FALSE, error |-> "Error: " \o e]
GenerationErrorResponse(q, e) ==
    [success |-> FALSE, error |-> "Error generating SQL: " \o e, question |-> q]
NoSqlResponse(q) ==
    [success |-> FALSE, error |-> "Could not generate appropriate SQL", question |-> q]
ExecutionResponse(q, sql_query, sql_result, execution_result) ==
    [success |-> DictGet(execution_result, "success", FALSE),
     question |-> q,
     sql_query |-> sql_query,
     method |-> DictGet(sql_result, "method", "unknown"),
     results |-> DictGet(execution_result, "results", <<>>),
     row_count |-> DictGet(execution_result, "row_count", 0),
     columns |-> DictGet(execution_result, "columns", <<>>),
     error |-> DictGet(execution_result, "error", None)]

\* The part of process_query after the question check: the agent is built,
\* generate_sql and execute_query are looked up on it and called.  sql_result
\* and execution_result are what the two methods return where they exist.
AskAgent(q, constructs, sql_result, execution_result) ==
    IF ~constructs THEN ExceptionResponse("SQLAgent() failed")
    ELSE IF GetAttribute("generate_sql").raised
    THEN ExceptionResponse(GetAttribute("generate_sql").message)
    ELSE IF DictGet(sql_result, "error", "") # ""
    THEN GenerationErrorResponse(q, sql_result["error"])
    ELSE IF DictGet(sql_result, "sql", <<>>) = <<>>
    THEN NoSqlResponse(q)
    ELSE IF GetAttribute("execute_query").raised
    THEN ExceptionResponse(GetAttribute("execute_query").message)
    ELSE ExecutionResponse(q, sql_result["sql"], sql_result, execution_result)

\* process_query(request) for the body of a POST request.
ProcessQueryView(req, sql_result, execution_result) ==
    IF req.body.kind = "malformed" THEN DecodeErrorResponse
    ELSE IF req.body.kind = "array"
    THEN ExceptionResponse("'list' object has no attribute 'get'")
    ELSE IF req.body.question.kind = "null"
    THEN ExceptionResponse("'NoneType' object has no attribute 'strip'")
    ELSE IF req.body.question.kind = "number"
    THEN ExceptionResponse("'int' object has no attribute 'strip'")
    ELSE The({IF Len(q) = 0 THEN EmptyQuestionResponse
              ELSE AskAgent(q, req.constructs, sql_result, execution_result) :
              q \in {Strip(IF req.body.question.kind = "missing" THEN <<>>
                           ELSE req.body.question.text)}})

\* The questions put to the endpoint, and the whitespace around them.
ViewQuestions ==
    {Chars(q) : q \in Questions \cup {"Show all products", "Who ordered most?", "drop everything"}}
    \cup {<<>>}

ViewPads == {<<>>, <<" ">>, <<"\n">>}

\* The value under the key question: a string, null, a number, or no such key.
QuestionValues ==
    {[kind |-> "string", text |-> p \o q \o r] : p \in ViewPads, q \in ViewQuestions, r \in ViewPads}
    \cup {[kind |-> k, text |-> <<>>] : k \in {"null", "number", "missing"}}

\* The request bodies: text that is no JSON, a JSON array, a JSON object.
RequestBodies ==
    {[kind |-> k, question |-> [kind |-> "missing", text |-> <<>>], lang |-> FALSE] :
        k \in {"malformed", "array"}}
    \cup {[kind |-> "object", question |-> v, lang |-> l] : v \in QuestionValues, l \in BOOLEAN}

\* A request: its body, and whether SQLAgent() returns an agent for it.
Requests == {[body |-> b, constructs |-> c] : b \in RequestBodies, c \in BOOLEAN}

\* What generate_sql and execute_query would return.
SqlResults ==
    {[error |-> "model not loaded"],
     [sql |-> <<>>, method |-> "ollama"],
     [sql |-> Chars("SELECT * FROM querycraft_customer"), method |-> "ollama"]}

ExecutionResults ==
    {[success |-> FALSE, error |-> Some("SQL execution error")],
     [success |-> TRUE, results |-> <<>>, row_count |-> 0, columns |-> <<"id">>, error |-> None]}

InitView ==
    /\ pc = "process_query"
    /\ question = ""
    /\ arg \in Requests
    /\ backend = [kind |-> "text", text |-> <<>>, message |-> ""]
    /\ store \in ValidatorStores /\ store.vendor = "mysql" /\ store.validate = "ok"
    /\ state = InitialState(question)
    /\ verdicts = <<>>
    /\ storeCalls = <<>>
    /\ nodesRun = <<>>
    /\ result = None
    /\ backendCalls = 0
    /\ cleanings = <<>>
    /\ runs = <<>>

ProcessQuery ==
    /\ pc = "process_query"
    /\ \E sql_result \in SqlResults, execution_result \in ExecutionResults :
           result' = Some(ProcessQueryView(arg, sql_result, execution_result))
    /\ pc' = "responded"
    /\ UNCHANGED <<question, arg, backend, store, state, verdicts, storeCalls, nodesRun,
                   backendCalls, cleanings, runs>>

NextView == ProcessQuery

SpecView == InitView /\ [][NextView]_vars

----------------------------------------------------------------------------
(* Vocabulary of the properties                                            *)

\* An error field that holds a non-empty value.
ErrorSet(o) == o.some /\ o.val # ""

Ran(node) == \E i \in DOMAIN nodesRun : nodesRun[i] = node

ExecutorCalls == {i \in DOMAIN storeCalls : storeCalls[i].by = "execute_sql"}

\* The generation stage of this run fails: the backend raises or answers nothing.
GenerationFails == backend.kind = "raise" \/ Len(Strip(backend.text)) = 0

\* The first whitespace-delimited word of a text, upper-cased.
FirstWord(t) ==
    LET s == Strip(t)
        gaps == {i \in 1..Len(s) : IsSpace(s[i])}
    IN  Upper(IF gaps = {} THEN s ELSE SubSeq(s, 1, Min(gaps) - 1))

\* The first six characters of the trimmed text (fewer if it is shorter), upper-cased.
FirstSix(t) ==
    LET s == Strip(t)
    IN  Upper(SubSeq(s, 1, IF Len(s) < Len(SelectChars) THEN Len(s) ELSE Len(SelectChars)))

DenylistWords == {"DROP", "DELETE", "INSERT", "UPDATE", "ALTER", "CREATE", "TRUNCATE"}
DenylistTexts == {Chars(k) : k \in DenylistWords}
StorageTableTexts ==
    {Chars(n) : n \in {"QUERYCRAFT_CUSTOMER", "QUERYCRAFT_PRODUCT", "QUERYCRAFT_ORDER"}}

\* The text holds a keyword of the denylist, in any casing, at any position.
NamesDenylisted(t) ==
    \E i \in 1..Len(t) : \E k \in DenylistTexts : MatchUpperAt(t, k, i)

\* The text holds one of the three storage table names, in any casing.
NamesWhitelisted(t) ==
    \E i \in 1..Len(t) : \E n \in StorageTableTexts : MatchUpperAt(t, n, i)

\* The reasons that name a denylist keyword.
DenylistReasons == {Some(DangerousError(k)) : k \in DenylistWords}

----------------------------------------------------------------------------
(* Properties                                                              *)

\* C1: in every run the execute_sql node is entered, and sends a statement
\* to the store, only after _validate_sql returned is_valid = TRUE for that
\* very text in this run; after an invalid verdict, or a validator node that
\* judged nothing, execute_sql is never entered.
C1_ExecuteOnlyAfterValid ==
    /\ \A i \in ExecutorCalls :
          \E j \in DOMAIN verdicts :
              verdicts[j].sql = storeCalls[i].statement /\ verdicts[j].result.is_valid
    /\ (pc = "execute_sql" \/ Ran("execute_sql")) =>
          /\ verdicts # <<>>
          /\ \A j \in DOMAIN verdicts : verdicts[j].result.is_valid
          /\ state.sql_query = Some(verdicts[Len(verdicts)].sql)

\* C1 witness: a finished run in which the executor sent a statement.
C1_Witness == pc = "done" /\ ExecutorCalls # {} /\ Len(verdicts) = 1

\* C2 as stated: _validate_sql rejects every text whose first
\* whitespace-delimited word is not exactly SELECT (in any casing).
C2_RejectsUnlessFirstWordSelect ==
    \A j \in DOMAIN verdicts :
        FirstWord(verdicts[j].sql) # SelectChars => ~verdicts[j].result.is_valid

\* C3: _validate_sql rejects every text that holds DROP, DELETE, INSERT,
\* UPDATE, ALTER, CREATE or TRUNCATE as a substring, in any casing and at any
\* position, also when it starts with SELECT and names a whitelisted table.
C3_RejectsDenylistSubstring ==
    \A j \in DOMAIN verdicts :
        NamesDenylisted(verdicts[j].sql) => ~verdicts[j].result.is_valid

\* C3 witness: a text that starts with SELECT, names a whitelisted table and
\* holds CREATE inside the identifier created_at has been rejected.
C3_Witness ==
    /\ pc = "returned"
    /\ FirstWord(arg) = SelectChars
    /\ NamesWhitelisted(arg)
    /\ Contains(arg, Chars("created_at"))
    /\ ~verdicts[1].result.is_valid

\* C4: when the validator rejected the (non-empty) candidate, the result is
\* success = FALSE with the rejected text in sql_query and the validator's
\* non-empty reason in error.
C4_RejectionReported ==
    (pc = "done" /\ verdicts # <<>> /\ ~verdicts[Len(verdicts)].result.is_valid) =>
        LET v == verdicts[Len(verdicts)]
        IN  /\ Len(v.sql) > 0
            /\ ErrorSet(v.result.error)
            /\ ~result.val.success
            /\ result.val.sql_query = Some(v.sql)
            /\ result.val.error = v.result.error

\* C4 witness: a finished run whose candidate was rejected for a denylist keyword.
C4_Witness ==
    /\ pc = "done"
    /\ Len(verdicts) = 1
    /\ verdicts[1].result.error \in DenylistReasons
    /\ ~result.val.success

\* C5: once error is non-empty, every later step leaves it as it is and does
\* not lead to execute_sql; and the validator node overwrites error with the
\* verdict's only on a state whose error is empty.
C5_ErrorIsKept ==
    [][/\ ErrorSet(state.error) => (state'.error = state.error /\ pc' # "execute_sql")
       /\ (pc = "sql_validator" /\ TruthySeq(state.sql_query)) => ~ErrorSet(state.error)]_vars

\* C5 witness: the validator node has run on a state that held the
\* generator's error, and the error is still there.
C5_Witness ==
    /\ nodesRun = <<"sql_generator", "sql_validator">>
    /\ verdicts = <<>>
    /\ backend.kind = "raise"
    /\ state.error = Some(GenerationError(backend.message))

\* C6: the result is a success exactly when the final error is empty and
\* is_valid is true; a failure carries [], [] and 0.
C6_SuccessIffCleanAndValid ==
    pc = "done" =>
        /\ result.val.success <=> (~ErrorSet(state.error) /\ TruthyBool(state.is_valid))
        /\ ~result.val.success =>
              /\ result.val.results = <<>>
              /\ result.val.columns = <<>>
              /\ result.val.row_count = 0

\* C6 witness: a run that passed validation and failed in the executor.
C6_Witness ==
    /\ pc = "done"
    /\ TruthyBool(state.is_valid)
    /\ ErrorSet(state.error)
    /\ ~result.val.success

\* C7 as stated: when generation fails, neither the validating nor the
\* executing stage runs.
C7_NoStageAfterFailedGeneration ==
    GenerationFails => (~Ran("sql_validator") /\ ~Ran("execute_sql"))

\* C7 as amended: when generation fails, the run passes through the
\* sql_validator node, which judges nothing, sends nothing to the store and
\* keeps the generator's error with is_valid = FALSE; execute_sql never runs
\* and the run ends a failure with that error.
C7_FailedGenerationSkipsValidation ==
    GenerationFails =>
        /\ pc # "execute_sql" /\ ~Ran("execute_sql")
        /\ verdicts = <<>> /\ storeCalls = <<>>
        /\ pc \in {"sql_validator", "END", "done"} =>
              /\ state.is_valid = Some(FALSE)
              /\ state.sql_query = None
              /\ state.error = Some(IF backend.kind = "raise"
                                     THEN GenerationError(backend.message)
                                     ELSE EmptyResponseError)
        /\ pc \in {"END", "done"} => nodesRun = <<"sql_generator", "sql_validator">>
        /\ pc = "done" => (~result.val.success /\ result.val.error = state.error)

\* C7 witness: a finished run whose backend call raised.
C7_Witness == pc = "done" /\ backend.kind = "raise" /\ Ran("sql_validator")

\* The two statements of the DELETE scenario, and the responses that hold them.
DeleteAlone == Chars("DELETE FROM orders WHERE status='cancelled'")
DeleteAfterSelect == Chars("SELECT 1; DELETE FROM orders WHERE status='cancelled'")

DeleteAloneTexts == Wrappings(DeleteAlone)
DeleteAfterSelectTexts == Wrappings(DeleteAfterSelect)

HoldsDeleteAlone == backend.kind = "text" /\ backend.text \in DeleteAloneTexts
HoldsDeleteAfterSelect == backend.kind = "text" /\ backend.text \in DeleteAfterSelectTexts

\* C8 as stated: when the response holds the DELETE statement, alone or after
\* "SELECT 1;", the validator rejects with a reason that names a denylist
\* keyword and the executor is never called.
C8_DeleteRejectedByDenylist ==
    (pc = "done" /\ (HoldsDeleteAlone \/ HoldsDeleteAfterSelect)) =>
        /\ verdicts # <<>>
        /\ verdicts[Len(verdicts)].result.error \in DenylistReasons
        /\ ~Ran("execute_sql") /\ ExecutorCalls = {}

\* C8 as amended: the validator rejects and the executor is never called,
\* but for another reason: the lone DELETE fails the leading-SELECT rule, and
\* of "SELECT 1; DELETE ..." the extractor keeps "SELECT 1", which names no
\* valid table.
C8_DeleteRejectedByOtherRules ==
    (pc = "done" /\ (HoldsDeleteAlone \/ HoldsDeleteAfterSelect)) =>
        /\ Len(verdicts) = 1
        /\ ~verdicts[1].result.is_valid
        /\ HoldsDeleteAlone =>
              /\ verdicts[1].sql = DeleteAlone
              /\ verdicts[1].result.error = Some(OnlySelectError)
        /\ HoldsDeleteAfterSelect =>
              /\ verdicts[1].sql = Chars("SELECT 1")
              /\ verdicts[1].result.error = Some(NoTableError)
        /\ ~Ran("execute_sql") /\ storeCalls = <<>>
        /\ ~result.val.success
        /\ result.val.error = verdicts[1].result.error

\* C8 witness: a finished run on "SELECT 1; DELETE ..." inside a fenced block.
C8_Witness ==
    /\ pc = "done"
    /\ HoldsDeleteAfterSelect
    /\ Contains(backend.text, Fence)
    /\ result.val.sql_query = Some(Chars("SELECT 1"))

\* C9: a candidate that starts with SELECT, holds no denylist keyword and
\* none of the three storage table names is rejected with the "must reference
\* a valid table" reason before anything is sent to the store, and the result
\* carries the rejected text.
C9_UnknownTableRejected ==
    \A j \in DOMAIN verdicts :
        (/\ FirstSix(verdicts[j].sql) = SelectChars
         /\ ~NamesDenylisted(verdicts[j].sql)
         /\ ~NamesWhitelisted(verdicts[j].sql)) =>
            /\ ~verdicts[j].result.is_valid
            /\ verdicts[j].result.error = Some(NoTableError)
            /\ storeCalls = <<>>
            /\ pc = "done" =>
                  /\ ~result.val.success
                  /\ result.val.sql_query = Some(verdicts[j].sql)
                  /\ result.val.error = Some(NoTableError)

\* C9 witness: a finished run whose candidate was "SELECT * FROM customers".
C9_Witness ==
    /\ pc = "done"
    /\ Len(verdicts) = 1
    /\ verdicts[1].sql = Chars("SELECT * FROM customers")
    /\ result.val.sql_query = Some(Chars("SELECT * FROM customers"))

\* C10: an empty or whitespace-only response ends the run with success =
\* FALSE, sql_query = None and the "empty response" error, which the validator
\* node leaves as it is; a run whose backend call raised ends with another
\* error.
C10_EmptyResponseReported ==
    /\ (backend.kind = "text" /\ Len(Strip(backend.text)) = 0) =>
          /\ pc \in {"sql_validator", "END", "done"} =>
                (state.error = Some(EmptyResponseError) /\ state.sql_query = None)
          /\ pc = "done" =>
                /\ ~result.val.success
                /\ result.val.sql_query = None
                /\ result.val.error = Some(EmptyResponseError)
    /\ (backend.kind = "raise" /\ pc = "done") =>
          /\ ~result.val.success
          /\ ErrorSet(result.val.error)
          /\ result.val.error # Some(EmptyResponseError)

\* C10 witness: a finished run whose backend answered with whitespace only.
C10_Witness ==
    /\ pc = "done"
    /\ backend.kind = "text"
    /\ Len(backend.text) > 0
    /\ Len(Strip(backend.text)) = 0
    /\ Ran("sql_validator")

\* The fields of a QueryResult.
QueryResultFields ==
    {"success", "question", "sql_query", "method", "results", "row_count", "columns", "error"}

\* C11: when the store raises while execute_sql runs the validated statement,
\* the node returns a state whose error is the execution error string, and
\* the run ends with success = FALSE, the attempted text in sql_query, no
\* results, no columns and row_count 0.
C11_ExecutionErrorReported ==
    (Ran("execute_sql") /\ store.execute # "ok") =>
        /\ pc \in {"END", "done"}
        /\ Len(verdicts) = 1 /\ verdicts[1].result.is_valid
        /\ state.error = Some(ExecutionError(StoreErrorText(store.execute)))
        /\ state.sql_query = Some(verdicts[1].sql)
        /\ pc = "done" =>
              /\ ~result.val.success
              /\ result.val.sql_query = Some(verdicts[1].sql)
              /\ result.val.error = state.error
              /\ result.val.results = <<>>
              /\ result.val.columns = <<>>
              /\ result.val.row_count = 0

\* C11 witness: a finished run whose store raised on the executor's statement.
C11_Witness ==
    /\ pc = "done"
    /\ store.execute = "statement_error"
    /\ ExecutorCalls # {}
    /\ result.val.error = Some(ExecutionError(StoreErrorText("statement_error")))

\* C12: every run of process_question ends, whatever the backend and the
\* store do: it is never stuck before the end, it takes at most three node
\* steps, and at the end the caller holds a QueryResult.
C12_TerminatesWithResult ==
    /\ [](/\ Len(nodesRun) <= 3
          /\ pc # "done" => (ENABLED Next /\ result = None)
          /\ pc = "done" => (result.some /\ DOMAIN result.val = QueryResultFields
                               /\ result.val.success \in BOOLEAN
                               /\ result.val.question = question))
    /\ <>(pc = "done")

\* C12 witness: a run that ended after three node steps, with a success.
C12_Witness ==
    /\ pc = "done"
    /\ nodesRun = <<"sql_generator", "sql_validator", "execute_sql">>
    /\ result.val.success

\* The column list of the store's result descriptor ([] when there is none).
DescribedColumns == IF store.description.some THEN store.description.val ELSE <<>>

\* C13: on a successful run row_count is the number of entries of results,
\* columns is the column list of the store's descriptor in its order, results
\* holds one entry for every row the store returned, in order, and every
\* entry is keyed by the column names and holds the row's values.
C13_ResultsMatchStore ==
    (pc = "done" /\ result.val.success) =>
        LET r == result.val
        IN  /\ r.row_count = Len(r.results)
            /\ r.columns = DescribedColumns
            /\ Len(r.results) = Len(store.rows)
            /\ \A i \in DOMAIN r.results :
                  /\ DOMAIN r.results[i] = Range(r.columns)
                  /\ \A c \in DOMAIN r.results[i] :
                        \E k \in DOMAIN r.columns :
                            r.columns[k] = c /\ r.results[i][c] = store.rows[i][k]

\* C13 witness: a successful run whose store returned two rows of two columns.
C13_Witness ==
    /\ pc = "done"
    /\ result.val.success
    /\ result.val.columns = <<"id", "name">>
    /\ result.val.row_count = 2
    /\ result.val.results[2]["name"] = 4

ValidatorCalls == {i \in DOMAIN storeCalls : storeCalls[i].by = "sql_validator"}

\* The words the syntax check puts before the candidate.
ExplainWords ==
    [postgresql |-> Chars("EXPLAIN "), sqlite |-> Chars("EXPLAIN QUERY PLAN ")]

\* C14 as stated: in every run the store receives at most one statement, and
\* it is the executor's.
C14_AtMostOneStoreCall ==
    /\ Len(storeCalls) <= 1
    /\ \A i \in DOMAIN storeCalls : storeCalls[i].by = "execute_sql"

\* C14 as amended: the executor sends the validated statement at most once
\* (once on a success) and nothing else sends it; the only other statement is
\* the validator's, sent first and only on postgresql and sqlite: the
\* candidate behind EXPLAIN or EXPLAIN QUERY PLAN.  A run sends at most two.
C14_OneExecutionAfterOneExplain ==
    /\ Len(storeCalls) <= 2
    /\ DOMAIN storeCalls = ValidatorCalls \cup ExecutorCalls
    /\ \A i, j \in ExecutorCalls : i = j
    /\ \A i \in ExecutorCalls :
          /\ Ran("execute_sql")
          /\ storeCalls[i].statement = state.sql_query.val
          /\ verdicts[1].sql = storeCalls[i].statement /\ verdicts[1].result.is_valid
    /\ \A i \in ValidatorCalls :
          /\ i = 1
          /\ store.vendor \in DOMAIN ExplainWords
          /\ storeCalls[i].statement = ExplainWords[store.vendor] \o verdicts[1].sql
    /\ (pc = "done" /\ result.val.success) =>
          \E i \in ExecutorCalls : i = Len(storeCalls)

\* C14 witness: a successful run in which the store received two statements.
C14_Witness ==
    /\ pc = "done"
    /\ result.val.success
    /\ Len(storeCalls) = 2
    /\ storeCalls[1].by = "sql_validator" /\ storeCalls[2].by = "execute_sql"

\* C15: in every run the completion backend is called once, also when its
\* answer is empty or it raises, and no node of the graph runs twice.
C15_BackendCalledOnce ==
    /\ backendCalls <= 1
    /\ backendCalls = 1 <=> Ran("sql_generator")
    /\ pc = "done" => backendCalls = 1
    /\ \A i, j \in DOMAIN nodesRun : nodesRun[i] = nodesRun[j] => i = j
    /\ pc \in {"sql_generator", "sql_validator", "execute_sql"} => ~Ran(pc)

\* C15 witness: a finished run whose backend answered nothing, called once.
C15_Witness ==
    /\ pc = "done"
    /\ GenerationFails /\ backend.kind = "text"
    /\ backendCalls = 1
    /\ nodesRun = <<"sql_generator", "sql_validator">>

\* C16: of two runs whose node steps interleave in any order, each starts
\* from its own fresh state, works on its own state only, and returns what
\* process_question returns for its question, backend and store alone.
C16_RunsAreIndependent ==
    \A r \in DOMAIN runs :
        /\ runs[r].pc = "sql_generator" => runs[r].state = InitialState(runs[r].question)
        /\ runs[r].state.question = runs[r].question
        /\ runs[r].pc = "done" =>
              runs[r].result =
                  Some(ProcessQuestion(runs[r].question, runs[r].backend, runs[r].store))

\* C16 witness: two finished runs on different questions whose steps
\* alternated, one a success and the other a failure.
C16_Witness ==
    /\ pc = "concurrent"
    /\ \A r \in DOMAIN runs : runs[r].pc = "done"
    /\ runs[1].question # runs[2].question
    /\ runs[1].result.val.success /\ ~runs[2].result.val.success
    /\ Len(nodesRun) >= 4
    /\ \A i \in 1..3 : nodesRun[i].run # nodesRun[i + 1].run

\* The text passes the four rules that look at the text alone.
TextRulesPass(t) ==
    /\ Len(Strip(t)) > 0
    /\ FirstSix(t) = SelectChars
    /\ ~NamesDenylisted(t)
    /\ NamesWhitelisted(t)

\* The reason of the first text rule that t fails.
TextRuleReason(t) ==
    IF Len(Strip(t)) = 0 THEN EmptyError
    ELSE IF FirstSix(t) # SelectChars THEN OnlySelectError
    ELSE IF NamesDenylisted(t)
    THEN LET occurs(k) == \E i \in 1..Len(t) : MatchUpperAt(t, DangerousChars[k], i)
             first == CHOOSE k \in DOMAIN dangerous_keywords :
                          occurs(k) /\ \A j \in 1..(k - 1) : ~occurs(j)
         IN  DangerousError(dangerous_keywords[first])
    ELSE NoTableError

\* The store raises on the syntax check: no cursor, or (on the two vendors
\* that get one) a failing EXPLAIN.
SyntaxCheckRaises ==
    \/ store.validate = "connect_error"
    \/ store.validate = "statement_error" /\ store.vendor \in DOMAIN ExplainWords

\* C17 as stated: the verdict and the reason _validate_sql returns for a text
\* are those it returns for the same text against any other store.
C17_VerdictIgnoresStore ==
    \A j \in DOMAIN verdicts :
        \A db \in ValidatorStores :
            ValidateSql(verdicts[j].sql, db).result = verdicts[j].result

\* C17 as amended: a text that fails one of the four text rules gets that
\* rule's verdict whatever the store, and nothing is sent; a text that passes
\* them is valid unless the store raises on the syntax check, and then the
\* reason is the store's message.  The call sends at most one statement and
\* changes nothing of a run.
C17_VerdictDependsOnTextAndSyntaxCheck ==
    \A j \in DOMAIN verdicts :
        LET v == verdicts[j]
        IN  /\ ~TextRulesPass(v.sql) =>
                  /\ v.result = ValidationResult(FALSE, Some(TextRuleReason(v.sql)))
                  /\ storeCalls = <<>>
            /\ (TextRulesPass(v.sql) /\ SyntaxCheckRaises) =>
                  v.result = ValidationResult(FALSE, Some(SyntaxError(StoreErrorText(store.validate))))
            /\ (TextRulesPass(v.sql) /\ ~SyntaxCheckRaises) =>
                  v.result = ValidationResult(TRUE, None)
            /\ Len(storeCalls) <= 1
            /\ state = InitialState(question) /\ result = None /\ nodesRun = <<>>

\* C17 witness: a text that passes the text rules has been rejected because
\* the store raised on its EXPLAIN.
C17_Witness ==
    /\ pc = "returned"
    /\ TextRulesPass(arg)
    /\ store.validate = "statement_error" /\ store.vendor = "postgresql"
    /\ ~verdicts[1].result.is_valid
    /\ Len(storeCalls) = 1

StatementWords == {Chars(k) : k \in {"SELECT", "WITH", "INSERT", "UPDATE", "DELETE"}}

\* A statement keyword stands at index i of t as a whole word, in any casing.
KeywordStandsAt(t, i) ==
    \E k \in StatementWords :
        /\ MatchUpperAt(t, k, i)
        /\ (i = 1 \/ ~IsWord(t[i - 1]))
        /\ (i + Len(k) > Len(t) \/ ~IsWord(t[i + Len(k)]))

\* The index of the first statement keyword of t (0 if there is none), and
\* of the first semicolon at or after index from (0 if there is none).
FirstKeyword(t) ==
    LET at == {i \in 1..Len(t) : KeywordStandsAt(t, i)}
    IN  IF at = {} THEN 0 ELSE Min(at)

FirstSemicolon(t, from) ==
    LET at == {i \in from..Len(t) : t[i] = ";"}
    IN  IF at = {} THEN 0 ELSE Min(at)

\* The text the extractor searches: the content of the first fenced block
\* when the input holds a fence, else the input.
Searched(t) == RemoveMarkdown(t)

\* A statement is found in t: the searched text holds a statement keyword,
\* and from the first one up to the first semicolon after it (or the end)
\* there are at least five characters.
StatementFound(t) ==
    \E s \in {Searched(t)} :
        \E kw \in {FirstKeyword(s)} :
            /\ kw > 0
            /\ \E semi \in {FirstSemicolon(s, kw)} :
                   Len(Strip(SubSeq(s, kw, IF semi > 0 THEN semi - 1 ELSE Len(s)))) >= MinSqlLen

\* C18 as stated: when a statement is found in the input, the output of the
\* extractor is a single line: it holds no newline character.
C18_OutputIsSingleLine ==
    \A j \in DOMAIN cleanings :
        StatementFound(cleanings[j].input) => "\n" \notin Range(cleanings[j].output)

\* C19 as stated: when the input holds a semicolon followed by no further
\* statement, the output does not end with a semicolon and holds nothing of
\* the text after the first semicolon: it lies within the text before it.
C19_NoSemicolonNoTrailingText ==
    \A j \in DOMAIN cleanings :
        LET t == cleanings[j].input
            semi == FirstSemicolon(t, 1)
        IN  (semi > 0 /\ FirstKeyword(SubSeq(t, semi + 1, Len(t))) = 0) =>
                /\ ~EndsWith(cleanings[j].output, <<";">>)
                /\ Contains(SubSeq(t, 1, semi - 1), cleanings[j].output)

\* C19 as amended: when the searched text holds a statement keyword and a
\* semicolon after it, with at least five characters from the keyword up to
\* that semicolon, the output is the text from the first keyword up to, not
\* including, the first semicolon after it, trimmed: no semicolon, and
\* nothing of what follows it.
C19_StatementCutAtSemicolon ==
    \A j \in DOMAIN cleanings :
        \E t \in {Searched(cleanings[j].input)} :
            \E kw \in {FirstKeyword(t)} :
                \E semi \in {IF kw > 0 THEN FirstSemicolon(t, kw) ELSE 0} :
                    (semi > 0 /\ Len(Strip(SubSeq(t, kw, semi - 1))) >= MinSqlLen) =>
                        /\ cleanings[j].output = Strip(SubSeq(t, kw, semi - 1))
                        /\ ";" \notin Range(cleanings[j].output)
                        /\ ~Contains(cleanings[j].output, Strip(SubSeq(t, semi + 1, Len(t))))
                              \/ Strip(SubSeq(t, semi + 1, Len(t))) = <<>>

\* C19 witness: a statement followed by a semicolon and by prose came out
\* without either.
C19_Witness ==
    /\ pc = "cleaned"
    /\ arg = Chars("SELECT * FROM querycraft_customer;\nThis query returns all orders.")
    /\ cleanings[1].output = Chars("SELECT * FROM querycraft_customer")

C21_OutputHasNoBacktick ==
    \A j \in DOMAIN cleanings : BT \notin Range(cleanings[j].output)

\* The statement of a searched text t whose first keyword stands at kw: the
\* text from kw up to, not including, the first semicolon after it or, if
\* there is none, up to the end, trimmed.
StatementFrom(t, kw) ==
    The({Strip(SubSeq(t, kw, IF semi > 0 THEN semi - 1 ELSE Len(t))) :
         semi \in {FirstSemicolon(t, kw)}})

\* The same with its semicolon, when there is one.
StatementThrough(t, kw) ==
    The({Strip(SubSeq(t, kw, IF semi > 0 THEN semi ELSE Len(t))) :
         semi \in {FirstSemicolon(t, kw)}})

\* C22 as stated: whenever the text the extractor searches holds a statement
\* keyword as a whole word, the output starts at the first one and runs to
\* the first semicolon after it (with or without it) or to the end of the text.
C22_OutputFromFirstKeyword ==
    \A j \in DOMAIN cleanings :
        \E t \in {Searched(cleanings[j].input)} :
            \E kw \in {FirstKeyword(t)} :
                kw > 0 => cleanings[j].output \in {StatementFrom(t, kw), StatementThrough(t, kw)}

\* C22 as amended: the same whenever that statement, trimmed and without its
\* semicolon, has at least five characters; the output is the statement
\* without the semicolon.
C22_StatementFromFirstKeyword ==
    \A j \in DOMAIN cleanings :
        \E t \in {Searched(cleanings[j].input)} :
            \E kw \in {FirstKeyword(t)} :
                (kw > 0 /\ Len(StatementFrom(t, kw)) >= MinSqlLen) =>
                    cleanings[j].output = StatementFrom(t, kw)

\* C22 witness: a statement of three lines behind a line of prose came out
\* from its keyword to the end, newlines included, without the prose.
C22_Witness ==
    /\ pc = "cleaned"
    /\ arg = Chars("Here is the query:\nSELECT\n  c.name\nFROM querycraft_customer c")
    /\ cleanings[1].output = Chars("SELECT\n  c.name\nFROM querycraft_customer c")

\* The content of the first fenced block of a text that holds a fence: what
\* stands between the first fence and the next one (or the end of the text).
FirstBlock(t) ==
    LET fences == {i \in 1..Len(t) : MatchAt(t, Fence, i)}
        open == Min(fences)
        closing == {i \in fences : i >= open + 3}
    IN  SubSeq(t, open + 3, IF closing = {} THEN Len(t) ELSE Min(closing) - 1)

\* A block without its language tag: the trimmed block, less a leading sql
\* (in any casing) that a space or a newline follows, trimmed again.
WithoutTag(block) ==
    The({IF Len(b) >= 4 /\ Upper(SubSeq(b, 1, 3)) = Chars("SQL") /\ b[4] \in {" ", "\n"}
         THEN Strip(SubSeq(b, 4, Len(b)))
         ELSE b :
         b \in {Strip(block)}})

\* The candidate a trimmed text u gives: its statement when it holds a
\* statement keyword, else u less one trailing semicolon.
Candidate(u) ==
    The({IF kw > 0 THEN StatementFrom(u, kw)
         ELSE IF Len(u) > 0 /\ u[Len(u)] = ";" THEN Strip(SubSeq(u, 1, Len(u) - 1))
         ELSE u :
         kw \in {FirstKeyword(u)}})

\* C23 as stated: when the input holds a fence, the output lies within the
\* content of the first fenced block, language tag apart: nothing of the
\* text before the block, after it, or of a later block is in it.
C23_OutputWithinFirstBlock ==
    \A j \in DOMAIN cleanings :
        Contains(cleanings[j].input, Fence) =>
            Contains(WithoutTag(FirstBlock(cleanings[j].input)), cleanings[j].output)

\* C23 as amended: when the input holds a fence and the first block, language
\* tag apart, gives a candidate of at least five characters, the output is
\* that candidate, which the block alone decides; when the candidate is
\* shorter, the output is the whole input, trimmed.
C23_FirstBlockDecides ==
    \A j \in DOMAIN cleanings :
        Contains(cleanings[j].input, Fence) =>
            \E u \in {WithoutTag(FirstBlock(cleanings[j].input))} :
                \E c \in {Candidate(u)} :
                    IF Len(c) >= MinSqlLen
                    THEN cleanings[j].output = c /\ Contains(u, cleanings[j].output)
                    ELSE cleanings[j].output = Strip(cleanings[j].input)

\* C23 witness: of a response with prose before, between and after two
\* fenced blocks, the statement of the first block came out, without its tag.
C23_Witness ==
    /\ pc = "cleaned"
    /\ StartsWith(arg, Chars("Sure:\n"))
    /\ Contains(arg, Chars("querycraft_product")) /\ EndsWith(arg, Chars("Done."))
    /\ cleanings[1].output = Chars("SELECT * FROM querycraft_customer")

\* The candidate of an input: that of its first fenced block, language tag
\* apart, when it holds a fence, else that of the trimmed input.
CandidateOf(t) ==
    IF Contains(t, Fence) THEN Candidate(WithoutTag(FirstBlock(t))) ELSE Candidate(Strip(t))

\* C24: when the candidate is empty or shorter than five characters, the
\* output is the trimmed input, not the candidate; an empty or
\* whitespace-only input gives the empty text, and SEL gives SEL.
C24_ShortCandidateGivesOriginal ==
    \A j \in DOMAIN cleanings :
        \E t \in {cleanings[j].input} :
            /\ Len(CandidateOf(t)) < MinSqlLen => cleanings[j].output = Strip(t)
            /\ (\A i \in DOMAIN t : IsSpace(t[i])) => cleanings[j].output = <<>>
            /\ t = Chars("SEL") => cleanings[j].output = t

\* C24 witness: a response whose fenced block holds SEL came back whole,
\* trimmed, not as the three characters of the block.
C24_Witness ==
    /\ pc = "cleaned"
    /\ Contains(arg, Fence)
    /\ FirstBlock(arg) = Chars("\nSEL\n")
    /\ CandidateOf(arg) = Chars("SEL")
    /\ cleanings[1].output = Strip(arg) /\ Len(cleanings[1].output) > Len(Fence) + 3

\* The request carries a question: its body is a JSON object whose question
\* is a string with a character that is not whitespace.
CarriesQuestion(req) ==
    /\ req.body.kind = "object"
    /\ req.body.question.kind = "string"
    /\ Len(Strip(req.body.question.text)) > 0

\* C25 as stated: every response process_query returns for a question
\* carries the eight fields of the result contract (here: whenever the agent
\* could be built for the request).
C25_ResponseHasAllFields ==
    (pc = "responded" /\ CarriesQuestion(arg) /\ arg.constructs) =>
        DOMAIN result.val = QueryResultFields

\* The words that announce a table, and the whitelist, as texts.
TableWords == {Chars("FROM "), Chars("JOIN ")}
WhitelistTexts ==
    {Chars(n) : n \in {"querycraft_customer", "querycraft_product", "querycraft_order"}}

\* The longest run of word characters of t that starts at index i.
WordRunAt(t, i) ==
    LET stops == {e \in i..(Len(t) + 1) : e = Len(t) + 1 \/ ~IsWord(t[e])}
    IN  SubSeq(t, i, Min(stops) - 1)

\* The tables a statement references: the names, lower-cased, that stand
\* behind a FROM or a JOIN.
TablesReferenced(t) ==
    {Lower(WordRunAt(t, i + Len(k))) : <<i, k>> \in
        {ik \in (1..Len(t)) \X TableWords :
            /\ MatchUpperAt(t, ik[2], ik[1])
            /\ (ik[1] = 1 \/ ~IsWord(t[ik[1] - 1]))}} \ {<<>>}

\* C26 as stated: every statement _validate_sql accepts references
\* whitelisted tables only.
C26_AcceptedNamesOnlyWhitelist ==
    \A j \in DOMAIN verdicts :
        verdicts[j].result.is_valid => TablesReferenced(verdicts[j].sql) \subseteq WhitelistTexts

\* C27: _clean_sql_query returns a non-empty text for every input that holds
\* a character that is not whitespace; so after a generation that set no
\* error the validator node finds a non-empty sql_query, and it takes its
\* branch for a missing query only after a failed generation, whose error it
\* keeps.
C27_CleanedTextNotEmpty ==
    /\ \A j \in DOMAIN cleanings :
          (\E i \in DOMAIN cleanings[j].input : ~IsSpace(cleanings[j].input[i])) =>
              Len(cleanings[j].output) > 0
    /\ (pc = "sql_validator" /\ ~ErrorSet(state.error)) =>
          /\ TruthySeq(state.sql_query)
          /\ Len(cleanings) = 1 /\ state.sql_query.val = cleanings[1].output
    /\ (Ran("sql_validator") /\ verdicts = <<>>) =>
          /\ GenerationFails
          /\ cleanings = <<>>
          /\ ErrorSet(state.error)

\* C27 witness: the backend answered two fences with nothing between them;
\* the extractor had no candidate and returned the answer itself, which the
\* validator then judged.
C27_Witness ==
    /\ pc = "done"
    /\ backend.kind = "text" /\ backend.text = Fence \o Fence
    /\ cleanings = <<[input |-> Fence \o Fence, output |-> Fence \o Fence]>>
    /\ Len(verdicts) = 1 /\ verdicts[1].sql = Fence \o Fence

\* On the text t the keyword search finds no match and the line-by-line scan
\* collects at least one line.
LineScanFindsMore(t) ==
    \E searched \in {RemoveMarkdown(t)} :
        /\ ~RegexSearch(searched).some
        /\ Len(ScanLines(SplitLines(searched), 1, <<>>, FALSE)) > 0

\* C28 as stated: among the texts given to the extractor there is one on
\* which the keyword search finds no match and the line-by-line scan
\* collects at least one line (looked for once a call has returned).
C28_LineScanFindsMoreSomewhere ==
    pc = "cleaned" => \E t \in ExtractorTexts : LineScanFindsMore(t)

\* C29: the executor is entered only with a statement that passed the
\* validator's leading-SELECT rule, which is the test of its own SELECT
\* branch; so whenever the store answers, the executor fetches the rows and
\* the described columns, and never reports an affected-row count with empty
\* results and columns in their place.
C29_ExecutorTakesSelectBranch ==
    /\ (pc = "execute_sql" \/ Ran("execute_sql")) =>
          /\ Len(verdicts) = 1 /\ verdicts[1].result.is_valid
          /\ state.sql_query = Some(verdicts[1].sql)
          /\ FirstSix(state.sql_query.val) = SelectChars
    /\ (Ran("execute_sql") /\ store.execute = "ok") =>
          /\ state.columns = Some(DescribedColumns)
          /\ state.row_count = Some(Len(state.results.val))
          /\ Len(state.results.val) = Len(store.rows)
          /\ \A i \in DOMAIN state.results.val :
                DOMAIN state.results.val[i] = Range(DescribedColumns)

\* C29 witness: a statement whose first word is SELECTED passed the rule and
\* the executor fetched the two rows the store returned for it.
C29_Witness ==
    /\ pc = "done"
    /\ Ran("execute_sql")
    /\ FirstWord(state.sql_query.val) = Chars("SELECTED")
    /\ Len(store.rows) = 2 /\ store.description = Some(<<"id", "name">>)
    /\ Len(result.val.results) = 2 /\ result.val.columns = <<"id", "name">>

\* The fields only the executor sets, and those of them the state holds.
OutcomeFields == {"results", "columns", "row_count"}
OutcomeFieldsSet == {f \in OutcomeFields : state[f].some}

\* C30: the question of the state is the input question after every stage,
\* and so is the returned one; results, columns and row_count stay unset
\* through generation and validation, and are set, all three, only when the
\* executor has run and returned without an error.
C30_QuestionKeptOutcomeOnlyFromExecutor ==
    /\ state.question = question
    /\ pc = "done" => result.val.question = question
    /\ ~Ran("execute_sql") => OutcomeFieldsSet = {}
    /\ OutcomeFieldsSet # {} =>
          /\ OutcomeFieldsSet = OutcomeFields
          /\ Ran("execute_sql") /\ store.execute = "ok"
          /\ ~ErrorSet(state.error)
    /\ (Ran("execute_sql") /\ store.execute # "ok") =>
          OutcomeFieldsSet = {} /\ ErrorSet(state.error)

\* C30 witness: a run ended whose executor failed on the statement: the
\* three fields are unset in the final state and the question came back.
C30_Witness ==
    /\ pc = "done"
    /\ nodesRun = <<"sql_generator", "sql_validator", "execute_sql">>
    /\ store.execute = "statement_error"
    /\ OutcomeFieldsSet = {}
    /\ result.val.question = question /\ state.question = question

====
